---- MODULE Spec2Model ----
(***************************************************************************)
(* Model of src/agent.py: the Flask voice agent "ChefBot".                 *)
(*                                                                         *)
(* One POST /process_audio request runs normalize -> transcribe -> chat -> *)
(* action log -> synthesize.  The chat session `chat` is one module-level  *)
(* object shared by all requests.  app.run(debug=True, port=5000) starts   *)
(* the development server, which handles each request on a thread of its   *)
(* own, so handlers interleave at every step (Spec); SpecSerial is the     *)
(* same program when the requests happen to arrive one after the other.    *)
(* Spec explores all interleavings of short exchanges (LeanServices),      *)
(* SpecSerial all exchanges (FullServices) one request at a time.          *)
(*                                                                         *)
(* Texts are sequences of one-character strings, so that lower(), `in`     *)
(* and += are computed rather than assumed.                                *)
(***************************************************************************)
EXTENDS Integers, Sequences, FiniteSets

\* ------------------------------------------------------------------ bounds
\* number of requests the model lets arrive
MaxRequests == 2
\* longest response.results list the recognizer returns
MaxSegments == 2

\* RecognitionConfig leaves max_alternatives unset: the recognizer returns at
\* most one alternative per result segment
MaxAlternatives == 1

Requests == 1..MaxRequests

\* ------------------------------------------------------------------- texts
UpperCase ==
    <<"A", "B", "C", "D", "E", "F", "G", "H", "I", "J", "K", "L", "M",
      "N", "O", "P", "Q", "R", "S", "T", "U", "V", "W", "X", "Y", "Z">>
LowerCase ==
    <<"a", "b", "c", "d", "e", "f", "g", "h", "i", "j", "k", "l", "m",
      "n", "o", "p", "q", "r", "s", "t", "u", "v", "w", "x", "y", "z">>

\* str.lower() on one character
LowerChar(c) ==
    IF \E i \in 1..Len(UpperCase) : UpperCase[i] = c
    THEN LowerCase[CHOOSE i \in 1..Len(UpperCase) : UpperCase[i] = c]
    ELSE c

\* a case-sensitive comparison: lower() left out
Lower_Identity(s) == s

\* str.lower()
Lower(s) == [i \in 1..Len(s) |-> LowerChar(s[i])]

\* `sub in s` for strings
Contains(s, sub) ==
    \E i \in 0..(Len(s) - Len(sub)) :
        \A j \in 1..Len(sub) : s[i + j] = sub[j]

ORDER_PLACED ==
    <<"o", "r", "d", "e", "r", " ", "p", "l", "a", "c", "e", "d">>
TABLE_CONFIRMED ==
    <<"t", "a", "b", "l", "e", " ", "c", "o", "n", "f", "i", "r", "m", "e", "d">>
BOOKING_CONFIRMED ==
    <<"b", "o", "o", "k", "i", "n", "g", " ", "c", "o", "n", "f", "i", "r", "m", "e", "d">>

\* console lines (the format strings of the print calls)
SAID_LINE == "Customer said: \"{customer_text}\""
REPLIED_LINE == "ChefBot replied: \"{chefbot_text}\""
ORDER_LINE == "--- Action: Food order placed! ---"
BOOKING_LINE == "--- Action: Table booking confirmed! ---"
ERROR_LINE == "An error occurred: {e}"

\* the lines the action logger prints for one reply text
ActionLines(chefbot_text) ==
    (IF Contains(Lower(chefbot_text), ORDER_PLACED)
     THEN <<ORDER_LINE>> ELSE <<>>)
    \o
    (IF Contains(Lower(chefbot_text), TABLE_CONFIRMED)
        \/ Contains(Lower(chefbot_text), BOOKING_CONFIRMED)
     THEN <<BOOKING_LINE>> ELSE <<>>)

\* reply texts the chat model may produce
ReplyOrder ==
    <<"O", "r", "d", "e", "r", " ", "p", "l", "a", "c", "e", "d", ".">>
ReplyNone ==
    <<"O", "r", "d", "e", "r", " ", "i", "s", " ", "p", "l", "a", "c", "e", "d", "?">>
ReplyTable ==
    <<"T", "A", "B", "L", "E", " ", "C", "O", "N", "F", "I", "R", "M", "E", "D">>
ReplyBooking ==
    <<"B", "o", "o", "k", "i", "n", "g", " ", "c", "o", "n", "f", "i", "r", "m", "e", "d", ".">>
ReplyTableBooking ==
    <<"T", "a", "b", "l", "e", " ", "c", "o", "n", "f", "i", "r", "m", "e", "d", ",", " ",
      "b", "o", "o", "k", "i", "n", "g", " ", "c", "o", "n", "f", "i", "r", "m", "e", "d">>
ReplyOrderTable ==
    <<"O", "r", "d", "e", "r", " ", "p", "l", "a", "c", "e", "d", ",", " ",
      "t", "a", "b", "l", "e", " ", "c", "o", "n", "f", "i", "r", "m", "e", "d">>
ReplyTexts ==
    {ReplyOrder, ReplyNone, ReplyTable, ReplyBooking, ReplyTableBooking, ReplyOrderTable}

\* transcripts of one alternative
Words == {<<>>, <<"h", "i">>}

SeqUpTo(S, n) == UNION {[1..k -> S] : k \in 0..n}

\* the values response.results can take: segments, each a list of alternatives
ResultLists == SeqUpTo(SeqUpTo(Words, MaxAlternatives), MaxSegments)

\* -------------------------------------------------------------- exceptions
DecodeError ==
    [cls |-> "CouldntDecodeError",
     msg |-> "Decoding failed. ffmpeg returned error code: 1"]
RecognizeError ==
    [cls |-> "ServiceUnavailable", msg |-> "503 recognize unavailable"]
IndexError ==
    [cls |-> "IndexError", msg |-> "list index out of range"]
ChatError ==
    [cls |-> "InternalServerError", msg |-> "500 generate_content failed"]
TextError ==
    [cls |-> "ValueError", msg |-> "response.text requires a valid Part"]
SynthesisError ==
    [cls |-> "DeadlineExceeded", msg |-> "504 synthesize_speech deadline"]

\* the exception's class name in place of its message
StrOf_Class(e) == e.cls

\* str(e)
StrOf(e) == e.msg

\* --------------------------------------------------------------- responses
NoResponse == [status |-> 0, mimetype |-> "", json |-> {}, data |-> ""]

\* jsonify(obj), status: a JSON object is the set of its (key, value) pairs
Jsonify(obj, status) ==
    [status |-> status, mimetype |-> "application/json", json |-> obj, data |-> ""]

\* the 400 left out of the return statement
MissingAudioResponse_NoStatus ==
    Jsonify({<<"error", "No audio file provided">>}, 200)

MissingAudioResponse ==
    Jsonify({<<"error", "No audio file provided">>}, 400)

\* the canned answer without its `audio` key
EmptyTranscriptResponse_NoAudio ==
    Jsonify({<<"text", "I didn't catch that. Could you please repeat?">>}, 200)

EmptyTranscriptResponse ==
    Jsonify({<<"text", "I didn't catch that. Could you please repeat?">>,
             <<"audio", "">>}, 200)

ErrorResponse(e) == Jsonify({<<"error", StrOf(e)>>}, 500)

\* the reply sent with the type of the normalized upload
AudioResponse_Wav(audio_content) ==
    [status |-> 200, mimetype |-> "audio/wav", json |-> {}, data |-> audio_content]

\* send_file(io.BytesIO(audio_content), mimetype="audio/mpeg")
AudioResponse(audio_content) ==
    [status |-> 200, mimetype |-> "audio/mpeg", json |-> {}, data |-> audio_content]

\* ------------------------------------------------------------ chat session
SYSTEM_PROMPT == <<"SYSTEM_PROMPT">>
GREETING == <<"Hello! I'm ChefBot">>

\* one turn of the history; `by` is the request the turn belongs to (0: seed)
Turn(role, parts, by) == [role |-> role, parts |-> parts, by |-> by]

SeedHistory ==
    <<Turn("user", <<SYSTEM_PROMPT>>, 0), Turn("model", <<GREETING>>, 0)>>

\* None, for _last_sent and _last_received
NoTurn == Turn("none", <<>>, 0)

VARIABLES
    pc,             \* pc[r]: where the handler of request r stands
    files,          \* files[r]: the field names of request.files
    results,        \* local of the handler: response.results
    customer_text,  \* local of the handler
    llm_response,   \* local of the handler: what chat.send_message returned
    chefbot_text,   \* local of the handler
    response,       \* what the handler returned to the client
    console,        \* console[r]: the lines the handler of r printed
    stages,         \* stages[r]: the pipeline stages r entered, in order
    history,        \* chat._history
    last_sent,      \* chat._last_sent
    last_received,  \* chat._last_received
    services,       \* what the recognizer and the chat model answer in this run
    overlap         \* some send_message call began while another was running

vars ==
    <<pc, files, results, customer_text, llm_response, chefbot_text, response, console,
      stages, history, last_sent, last_received, services, overlap>>

session == <<history, last_sent, last_received>>
locals == <<results, customer_text, llm_response, chefbot_text>>

\* chat.history as a reader sees it: the pending exchange is part of it
History ==
    IF last_received = NoTurn
    THEN history
    ELSE history \o <<last_sent, last_received>>

\* the concatenation of the top alternatives, as lines 109-111 compute it
RECURSIVE ConcatTop(_)
ConcatTop(res) ==
    IF res = <<>> THEN <<>>
    ELSE Head(res)[1] \o ConcatTop(Tail(res))

\* result.alternatives[0] raises IndexError on a segment without alternatives
RaisesIndexError(res) ==
    \E i \in 1..Len(res) : Len(res[i]) = 0

InSendMessage == {"send_call", "send_set_sent", "send_set_received"}

\* the services at large: any reply text, any result list
FullServices == [replies |-> ReplyTexts, results |-> ResultLists]

\* the services of a short exchange: transcripts of at most one segment, two
\* reply texts
LeanServices ==
    [replies |-> {ReplyOrder, ReplyNone},
     results |-> {res \in ResultLists : Len(res) <= 1}]

\* the process after start-up: the session seeded, no request yet
Start(svc) ==
    /\ services = svc
    /\ pc = [r \in Requests |-> "idle"]
    /\ files = [r \in Requests |-> {}]
    /\ results = [r \in Requests |-> <<>>]
    /\ customer_text = [r \in Requests |-> <<>>]
    /\ llm_response = [r \in Requests |-> NoTurn]
    /\ chefbot_text = [r \in Requests |-> <<>>]
    /\ response = [r \in Requests |-> NoResponse]
    /\ console = [r \in Requests |-> <<>>]
    /\ stages = [r \in Requests |-> <<>>]
    /\ history = SeedHistory
    /\ last_sent = NoTurn
    /\ last_received = NoTurn
    /\ overlap = FALSE

Init == Start(LeanServices)

InitSerial == Start(FullServices)

\* the multipart field names a request may carry
FileSets == {{}, {"file"}, {"audio"}}

\* ----------------------------------------------------------------- returns
\* `return resp`: the handler ends and its locals are gone
Return(r, resp) ==
    /\ pc' = [pc EXCEPT ![r] = "done"]
    /\ response' = [response EXCEPT ![r] = resp]
    /\ results' = [results EXCEPT ![r] = <<>>]
    /\ customer_text' = [customer_text EXCEPT ![r] = <<>>]
    /\ llm_response' = [llm_response EXCEPT ![r] = NoTurn]
    /\ chefbot_text' = [chefbot_text EXCEPT ![r] = <<>>]

\* except Exception as e: print, return jsonify({'error': str(e)}), 500
Except(r, e, sofar) ==
    /\ console' = [console EXCEPT ![r] = sofar \o <<ERROR_LINE>>]
    /\ Return(r, ErrorResponse(e))

\* ----------------------------------------------------------------- actions
\* request r arrives (requests are numbered in arrival order); the check of
\* request.files
Receive(r) ==
    /\ pc[r] = "idle"
    /\ IF r = 1 THEN TRUE ELSE pc[r - 1] # "idle"
    /\ \E fs \in FileSets :
          /\ files' = [files EXCEPT ![r] = fs]
          /\ IF "audio" \notin fs
             THEN Return(r, MissingAudioResponse)
             ELSE /\ pc' = [pc EXCEPT ![r] = "normalize"]
                  /\ UNCHANGED <<response, locals>>
    /\ UNCHANGED <<console, stages, session, overlap, services>>

\* AudioSegment.from_file ... export: decode and convert to mono 16 kHz WAV
Normalize(r) ==
    /\ pc[r] = "normalize"
    /\ stages' = [stages EXCEPT ![r] = @ \o <<"normalize">>]
    /\ \/ /\ pc' = [pc EXCEPT ![r] = "transcribe"]
          /\ UNCHANGED <<response, locals, console>>
       \/ Except(r, DecodeError, console[r])
    /\ UNCHANGED <<files, session, overlap, services>>

\* speech_client.recognize(config=config, audio=audio)
Recognize(r) ==
    /\ pc[r] = "transcribe"
    /\ stages' = [stages EXCEPT ![r] = @ \o <<"transcribe">>]
    /\ \/ /\ \E res \in services.results : results' = [results EXCEPT ![r] = res]
          /\ pc' = [pc EXCEPT ![r] = "concatenate"]
          /\ UNCHANGED <<customer_text, llm_response, chefbot_text, response, console>>
       \/ Except(r, RecognizeError, console[r])
    /\ UNCHANGED <<files, session, overlap, services>>

\* the concatenation loop without the empty-transcript exit
Concatenate_NoEmptyCheck(r) ==
    /\ pc[r] = "concatenate"
    /\ IF RaisesIndexError(results[r])
       THEN Except(r, IndexError, console[r])
       ELSE /\ customer_text' = [customer_text EXCEPT ![r] = ConcatTop(results[r])]
            /\ console' = [console EXCEPT ![r] = @ \o <<SAID_LINE>>]
            /\ pc' = [pc EXCEPT ![r] = "send_history"]
            /\ UNCHANGED <<results, response, llm_response, chefbot_text>>
    /\ UNCHANGED <<files, stages, session, overlap, services>>

\* the concatenation loop and the empty-transcript exit
Concatenate(r) ==
    /\ pc[r] = "concatenate"
    /\ IF RaisesIndexError(results[r])
       THEN Except(r, IndexError, console[r])
       ELSE IF ConcatTop(results[r]) = <<>>
       THEN /\ Return(r, EmptyTranscriptResponse)
            /\ UNCHANGED console
       ELSE /\ customer_text' = [customer_text EXCEPT ![r] = ConcatTop(results[r])]
            /\ console' = [console EXCEPT ![r] = @ \o <<SAID_LINE>>]
            /\ pc' = [pc EXCEPT ![r] = "send_history"]
            /\ UNCHANGED <<results, response, llm_response, chefbot_text>>
    /\ UNCHANGED <<files, stages, session, overlap, services>>

\* chat.send_message(customer_text) (line 119) is ChatSession.send_message of
\* google.generativeai.  It runs in four parts, none under a lock:
\*   1. history = self.history[:]   the property first appends the pending
\*      exchange (_last_sent, _last_received) to _history and clears both
\*      (taken as one step here);
\*   2. response = self.model.generate_content(history + [content]), which
\*      may raise;
\*   3. self._last_sent = content;
\*   4. self._last_received = response; return response.
\* A call that raises in part 2 has written nothing.

\* a history property that does not forget the pending exchange
SendHistory_NoClear(r) ==
    /\ pc[r] = "send_history"
    /\ stages' = [stages EXCEPT ![r] = @ \o <<"chat">>]
    /\ IF last_received = NoTurn
       THEN UNCHANGED session
       ELSE /\ history' = history \o <<last_sent, last_received>>
            /\ UNCHANGED <<last_sent, last_received>>
    /\ overlap' = (overlap \/ \E q \in Requests \ {r} : pc[q] \in InSendMessage)
    /\ pc' = [pc EXCEPT ![r] = "send_call"]
    /\ UNCHANGED <<files, locals, response, console, services>>

\* chat.send_message, first part: `history = self.history[:]`; the history
\* property moves the pending exchange into _history
SendHistory(r) ==
    /\ pc[r] = "send_history"
    /\ stages' = [stages EXCEPT ![r] = @ \o <<"chat">>]
    /\ IF last_received = NoTurn
       THEN UNCHANGED session
       ELSE /\ history' = history \o <<last_sent, last_received>>
            /\ last_sent' = NoTurn
            /\ last_received' = NoTurn
    /\ overlap' = (overlap \/ \E q \in Requests \ {r} : pc[q] \in InSendMessage)
    /\ pc' = [pc EXCEPT ![r] = "send_call"]
    /\ UNCHANGED <<files, locals, response, console, services>>

\* chat.send_message, second part: model.generate_content on the copy
SendCall(r) ==
    /\ pc[r] = "send_call"
    /\ \/ /\ \E parts \in {<<>>} \cup {<<t>> : t \in services.replies} :
                llm_response' = [llm_response EXCEPT ![r] = Turn("model", parts, r)]
          /\ pc' = [pc EXCEPT ![r] = "send_set_sent"]
          /\ UNCHANGED <<results, customer_text, chefbot_text, response, console>>
       \/ Except(r, ChatError, console[r])
    /\ UNCHANGED <<files, stages, session, overlap, services>>

\* a send_message that does not record what was sent
SendSetSent_Skip(r) ==
    /\ pc[r] = "send_set_sent"
    /\ pc' = [pc EXCEPT ![r] = "send_set_received"]
    /\ UNCHANGED <<files, locals, response, console, stages, session, overlap, services>>

\* chat.send_message, third part: self._last_sent = content
SendSetSent(r) ==
    /\ pc[r] = "send_set_sent"
    /\ last_sent' = Turn("user", <<customer_text[r]>>, r)
    /\ pc' = [pc EXCEPT ![r] = "send_set_received"]
    /\ UNCHANGED <<files, locals, response, console, stages, history, last_received, overlap, services>>

\* chat.send_message, last part: self._last_received = response; return
SendSetReceived(r) ==
    /\ pc[r] = "send_set_received"
    /\ last_received' = llm_response[r]
    /\ stages' = [stages EXCEPT ![r] = @ \o <<"reply">>]
    /\ pc' = [pc EXCEPT ![r] = "log"]
    /\ UNCHANGED <<files, locals, response, console, history, last_sent, overlap, services>>

\* chefbot_text = llm_response.text, and the action logger
LogActions(r) ==
    /\ pc[r] = "log"
    /\ IF llm_response[r].parts = <<>>
       THEN /\ Except(r, TextError, console[r])
            /\ UNCHANGED stages
       ELSE /\ chefbot_text' = [chefbot_text EXCEPT ![r] = llm_response[r].parts[1]]
            /\ console' = [console EXCEPT ![r] =
                              @ \o <<REPLIED_LINE>> \o ActionLines(llm_response[r].parts[1])]
            /\ stages' = [stages EXCEPT ![r] = @ \o <<"log">>]
            /\ pc' = [pc EXCEPT ![r] = "synthesize"]
            /\ UNCHANGED <<results, customer_text, llm_response, response>>
    /\ UNCHANGED <<files, session, overlap, services>>

\* tts_client.synthesize_speech and send_file
Synthesize(r) ==
    /\ pc[r] = "synthesize"
    /\ stages' = [stages EXCEPT ![r] = @ \o <<"synthesize">>]
    /\ \/ /\ Return(r, AudioResponse("mp3"))
          /\ UNCHANGED console
       \/ Except(r, SynthesisError, console[r])
    /\ UNCHANGED <<files, session, overlap, services>>

process_audio(r) ==
    \/ Receive(r)
    \/ Normalize(r)
    \/ Recognize(r)
    \/ Concatenate(r)
    \/ SendHistory(r)
    \/ SendCall(r)
    \/ SendSetSent(r)
    \/ SendSetReceived(r)
    \/ LogActions(r)
    \/ Synthesize(r)

\* the handlers run on threads of their own
Next == \E r \in Requests : process_audio(r)

Spec == Init /\ [][Next]_vars

\* a request is taken up only when no other handler is running
OneAtATime(r) == \A q \in Requests \ {r} : pc[q] \in {"idle", "done"}

ReceiveSerial(r) == OneAtATime(r) /\ Receive(r)

NextSerial ==
    \E r \in Requests :
        \/ ReceiveSerial(r)
        \/ Normalize(r)
        \/ Recognize(r)
        \/ Concatenate(r)
        \/ SendHistory(r)
        \/ SendCall(r)
        \/ SendSetSent(r)
        \/ SendSetReceived(r)
        \/ LogActions(r)
        \/ Synthesize(r)

SpecSerial == InitSerial /\ [][NextSerial]_vars

\* ================================================================== claims
Done(r) == pc[r] = "done"

\* how often line x occurs in a console
Count(seq, x) == Cardinality({i \in 1..Len(seq) : seq[i] = x})

\* request r entered stage st
Entered(r, st) == \E i \in 1..Len(stages[r]) : stages[r][i] = st

\* the except clause of request r ran
Failed(r) == Count(console[r], ERROR_LINE) > 0

\* the JSON body of a response has field k
HasField(resp, k) == \E kv \in resp.json : kv[1] = k

\* the turns of the history that belong to request r
TurnsBy(r) == {i \in 1..Len(History) : History[i].by = r}

\* the history holds the exchange of r: its user turn, then its model turn
HasExchange(r) ==
    \E i \in 1..(Len(History) - 1) :
        /\ History[i].role = "user" /\ History[i].by = r
        /\ History[i + 1].role = "model" /\ History[i + 1].by = r

IsPrefix(s, t) == Len(s) <= Len(t) /\ SubSeq(t, 1, Len(s)) = s

\* ---------------------------------------------------------------------- C1
\* C1: a request without the `audio` field ends at once with HTTP 400 and the
\* body {"error": "No audio file provided"}, whatever the history holds and
\* whatever else the request carries; no stage is started for it, it prints
\* nothing and adds nothing to the history.
C1_MissingAudio ==
    \A r \in Requests :
        (pc[r] # "idle" /\ "audio" \notin files[r]) =>
            /\ Done(r)
            /\ response[r] =
                 [status |-> 400, mimetype |-> "application/json",
                  json |-> {<<"error", "No audio file provided">>}, data |-> ""]
            /\ stages[r] = <<>>
            /\ console[r] = <<>>
            /\ TurnsBy(r) = {}

\* a request with another field but no `audio` got the 400 after an earlier
\* request had extended the history
C1_Witness ==
    \E r \in Requests :
        /\ Done(r) /\ files[r] = {"file"} /\ response[r].status = 400
        /\ Len(History) > 2

\* ---------------------------------------------------------------------- C3
\* C3 as stated: every request whose audio was decoded ends with an
\* audio/mpeg body or a JSON object with a `text` field, for any outcome of
\* the transcription, chat and synthesis calls.
C3_Original ==
    \A r \in Requests :
        (Done(r) /\ "audio" \in files[r] /\ Entered(r, "transcribe")) =>
            \/ response[r].mimetype = "audio/mpeg"
            \/ HasField(response[r], "text")

\* C3 amended: every request whose audio was decoded ends with an audio/mpeg
\* body or a JSON object with a `text` field, unless its transcription,
\* chat or synthesis step raised; then it ends with HTTP 500 and a JSON
\* object with an `error` field and no `text` field.
C3_Amended ==
    \A r \in Requests :
        (Done(r) /\ "audio" \in files[r] /\ Entered(r, "transcribe")) =>
            IF Failed(r)
            THEN /\ response[r].status = 500
                 /\ HasField(response[r], "error")
                 /\ ~HasField(response[r], "text")
                 /\ response[r].mimetype # "audio/mpeg"
            ELSE /\ response[r].status = 200
                 /\ \/ response[r].mimetype = "audio/mpeg"
                    \/ /\ response[r].mimetype = "application/json"
                       /\ HasField(response[r], "text")

\* one request ended with audio, another with the `text` object
C3_Witness ==
    \E r, q \in Requests :
        /\ Done(r) /\ response[r].mimetype = "audio/mpeg"
        /\ Done(q) /\ HasField(response[q], "text") /\ Entered(q, "transcribe")

\* ---------------------------------------------------------------------- C4
\* every result segment has a top alternative and all of them are empty
\* (so is the concatenation); true of the empty result list
AllTopEmpty(res) ==
    \A i \in 1..Len(res) : Len(res[i]) >= 1 /\ res[i][1] = <<>>

\* C4: when the recognizer returned and the top alternatives of all result
\* segments concatenate to the empty string (also with no segments), the
\* request ends with HTTP 200 and exactly the body
\* {"text": "I didn't catch that. Could you please repeat?", "audio": ""}.
C4_EmptyTranscript ==
    [][\A r \in Requests :
          (pc[r] = "concatenate" /\ pc'[r] # "concatenate" /\ AllTopEmpty(results[r])) =>
              /\ pc'[r] = "done"
              /\ response'[r] =
                   [status |-> 200, mimetype |-> "application/json",
                    json |-> {<<"text", "I didn't catch that. Could you please repeat?">>,
                              <<"audio", "">>},
                    data |-> ""]]_vars

\* a request ended with the canned text after the recognizer had returned
C4_Witness ==
    \E r \in Requests :
        /\ Done(r) /\ stages[r] = <<"normalize", "transcribe">> /\ ~Failed(r)
        /\ HasField(response[r], "text")

\* ---------------------------------------------------------------------- C5
\* the message of the exception a request raises when its last stage fails
MessageAt(r) ==
    LET last == stages[r][Len(stages[r])] IN
    CASE last = "normalize" -> {DecodeError.msg}
      [] last = "transcribe" -> {RecognizeError.msg, IndexError.msg}
      [] last = "chat" -> {ChatError.msg}
      [] last = "reply" -> {TextError.msg}
      [] last = "synthesize" -> {SynthesisError.msg}
      [] OTHER -> {}

\* C5: an exception in normalization, transcription, chat or synthesis is
\* caught by the one except clause: the request ends there with HTTP 500 and
\* the JSON body {"error": str(e)}; no stage ran twice and none ran after the
\* failing one, and a 500 is returned only this way.
C5_Exceptions ==
    \A r \in Requests :
        /\ Failed(r) =>
              /\ Done(r)
              /\ "audio" \in files[r]
              /\ stages[r] # <<>>
              /\ response[r].status = 500
              /\ response[r].mimetype = "application/json"
              /\ \E m \in MessageAt(r) : response[r].json = {<<"error", m>>}
              /\ Count(console[r], ERROR_LINE) = 1
              /\ console[r][Len(console[r])] = ERROR_LINE
              /\ \A i, j \in 1..Len(stages[r]) : stages[r][i] = stages[r][j] => i = j
        /\ response[r].status = 500 => Failed(r)

\* one request failed in synthesis, another in normalization
C5_Witness ==
    \E r, q \in Requests :
        /\ Failed(r) /\ stages[r][Len(stages[r])] = "synthesize"
        /\ Failed(q) /\ stages[q][Len(stages[q])] = "normalize"

\* ---------------------------------------------------------------------- C6
UpperOf(c) ==
    IF \E i \in 1..Len(LowerCase) : LowerCase[i] = c
    THEN UpperCase[CHOOSE i \in 1..Len(LowerCase) : LowerCase[i] = c]
    ELSE c

\* s holds the lower-case phrase in some mix of cases
HasPhrase(s, phrase) ==
    \E i \in 0..(Len(s) - Len(phrase)) :
        \A j \in 1..Len(phrase) : s[i + j] \in {phrase[j], UpperOf(phrase[j])}

\* s holds sub, letter for letter
HasExactly(s, sub) ==
    \E i \in 0..(Len(s) - Len(sub)) : SubSeq(s, i + 1, i + Len(sub)) = sub

C6_Lines ==
    \A r \in Requests :
      /\ Count(console[r], ORDER_LINE) <= 1
      /\ Count(console[r], BOOKING_LINE) <= 1
      /\ pc[r] = "synthesize" =>
            /\ HasExactly(chefbot_text[r],
                          <<"O", "r", "d", "e", "r", " ", "p", "l", "a", "c", "e", "d", ".">>)
                 => Count(console[r], ORDER_LINE) = 1
            /\ (/\ ~HasPhrase(chefbot_text[r], ORDER_PLACED)
                /\ ~HasPhrase(chefbot_text[r], TABLE_CONFIRMED)
                /\ ~HasPhrase(chefbot_text[r], BOOKING_CONFIRMED))
                 => (Count(console[r], ORDER_LINE) = 0 /\ Count(console[r], BOOKING_LINE) = 0)
            /\ (HasPhrase(chefbot_text[r], TABLE_CONFIRMED)
                  \/ HasPhrase(chefbot_text[r], BOOKING_CONFIRMED))
                 => Count(console[r], BOOKING_LINE) = 1

C6_Frame ==
    \A r \in Requests :
        (pc[r] = "log" /\ pc'[r] = "synthesize") =>
            /\ History' = History
            /\ session' = session
            /\ response' = response

\* C6: a reply containing "Order placed." prints exactly one order line for
\* its request; a reply with none of "order placed", "table confirmed",
\* "booking confirmed" (in any case) prints no action line; a reply with
\* "table confirmed", "booking confirmed" or both prints exactly one booking
\* line; the logger changes neither the history nor any response.
C6_ActionLogger == [](C6_Lines) /\ [][C6_Frame]_vars

\* a reply with both an order and a booking phrase printed one line of each
C6_Witness ==
    \E r \in Requests :
        /\ pc[r] = "synthesize"
        /\ chefbot_text[r] = ReplyOrderTable
        /\ Count(console[r], ORDER_LINE) = 1
        /\ Count(console[r], BOOKING_LINE) = 1

\* ---------------------------------------------------------------------- C8
IsStage(x) == x # "reply"

\* the pipeline stages of r, without the mark of send_message's return
Pipeline(r) == SelectSeq(stages[r], IsStage)

\* C8: the stages of one request run in the order normalize, transcribe,
\* chat, action log, synthesize, each at most once; the chat step runs only
\* with a non-empty transcript, the synthesis step only with the reply the
\* chat step returned, and a request that ends with the empty-transcript
\* response ran neither.
C8_StageOrder ==
    \A r \in Requests :
        /\ IsPrefix(Pipeline(r), <<"normalize", "transcribe", "chat", "log", "synthesize">>)
        /\ Entered(r, "chat") =>
              /\ Count(console[r], SAID_LINE) = 1
              /\ ~Done(r) => customer_text[r] # <<>>
        /\ Entered(r, "reply") => Entered(r, "chat")
        /\ pc[r] = "synthesize" =>
              /\ Entered(r, "reply")
              /\ chefbot_text[r] # <<>>
              /\ llm_response[r].parts = <<chefbot_text[r]>>
        /\ Entered(r, "synthesize") => Entered(r, "reply")
        /\ HasField(response[r], "text") =>
              /\ ~Entered(r, "chat")
              /\ ~Entered(r, "synthesize")
              /\ Count(console[r], SAID_LINE) = 0

\* one request ran all five stages, another stopped at the empty transcript
C8_Witness ==
    \E r, q \in Requests :
        /\ Done(r)
        /\ Pipeline(r) = <<"normalize", "transcribe", "chat", "log", "synthesize">>
        /\ Done(q) /\ HasField(response[q], "text")
        /\ Pipeline(q) = <<"normalize", "transcribe">>

\* ---------------------------------------------------------------------- C9
C9_Shape ==
    /\ Len(History) >= 2
    /\ Len(History) % 2 = 0
    /\ History[1] = [role |-> "user", parts |-> <<SYSTEM_PROMPT>>, by |-> 0]
    /\ History[2] = [role |-> "model", parts |-> <<GREETING>>, by |-> 0]
    /\ \A k \in 1..((Len(History) \div 2) - 1) :
          LET u == History[2 * k + 1]
              m == History[2 * k + 2]
          IN /\ u.role = "user" /\ m.role = "model"
             /\ u.by \in Requests /\ m.by = u.by
             /\ Len(u.parts) = 1 /\ u.parts[1] # <<>>
             /\ Entered(u.by, "reply")
             /\ ~Done(u.by) => (u.parts = <<customer_text[u.by]>> /\ m = llm_response[u.by])
             /\ k > 1 => History[2 * k - 1].by < u.by

\* C9: with the requests handled one at a time, the history always starts
\* with the unchanged seed pair, has even length, and after the seed holds
\* one (user transcript, model reply to it) pair per request whose chat step
\* returned, in arrival order; no step shortens, reorders or resets it.
C9_SerialHistory == [](C9_Shape) /\ [][IsPrefix(History, History')]_vars

\* two requests in a row each added their pair
C9_Witness ==
    /\ \A r \in Requests : Done(r)
    /\ Len(History) = 6
    /\ History[3].by = 1 /\ History[5].by = 2

\* ---------------------------------------------------------------------- C7
\* the requests whose send_message call returned
Returned == {r \in Requests : Entered(r, "reply")}

\* the seed, then one (user, model) pair per returned send_message call
IsSerial ==
    /\ Len(History) = 2 + 2 * Cardinality(Returned)
    /\ SubSeq(History, 1, 2) = SeedHistory
    /\ \A r \in Returned : Cardinality(TurnsBy(r)) = 2 /\ HasExchange(r)
    /\ \A i \in 3..Len(History) : History[i].by \in Returned

\* C7: handlers on different threads share the one chat session without a
\* lock.  As long as no send_message call began while another was running
\* the history is the seed followed by one (user, model) pair per returned
\* call; overlapping calls reach a history that is not (C7_Witness).
C7_SharedSession == ~overlap => IsSerial

\* both requests are over, both chat steps returned, and the history is not
\* a serial record of them
C7_Witness ==
    /\ \A r \in Requests : Done(r)
    /\ Cardinality(Returned) >= 2
    /\ ~IsSerial

\* ---------------------------------------------------------------------- C2
\* C2: the history starts with the two-entry seed pair, and every successful
\* request has added exactly two entries to it: its transcript, then the
\* reply to it.
C2_TwoPerRequest ==
    /\ Len(History) >= 2
    /\ SubSeq(History, 1, 2) = SeedHistory
    /\ \A r \in Requests :
          (Done(r) /\ response[r].mimetype = "audio/mpeg") =>
              (Cardinality(TurnsBy(r)) = 2 /\ HasExchange(r))

\* --------------------------------------------------------------------- C10
\* C10: a request has changed the history if and only if its chat step
\* returned a reply: a request that ended with the 400, with the
\* empty-transcript response, or with a 500 from normalization,
\* transcription or the chat call left no entry, and a request whose chat
\* step returned, its synthesis failing or not, left its (user, model) pair,
\* which stays.
C10_HistoryFrame ==
    \A r \in Requests :
        Done(r) =>
            IF Entered(r, "reply")
            THEN Cardinality(TurnsBy(r)) = 2 /\ HasExchange(r)
            ELSE TurnsBy(r) = {}

====
